---- MODULE Spec2Model ----
(***************************************************************************)
(* A model of the bamber19-icesheets pipeline: preprocess (ExtractSamples, *)
(* FindRefVals), project (single-scenario and temperature-driven, with     *)
(* GetSATData and pickScenario) and postprocess (fingerprint               *)
(* localization), driven either stage by stage or by the click command.    *)
(*                                                                         *)
(* Numbers.  Sea-level values are integers; the raw tables hold multiples  *)
(* of 4 so that every linear interpolation at the base years of the model  *)
(* is exact.  Temperatures are hundredths of a degree.  Array indices      *)
(* drawn by the generator are 0-based as in numpy; rows of a sequence are  *)
(* read with Row.                                                          *)
(***************************************************************************)
EXTENDS Integers, Sequences, FiniteSets, TLC

VARIABLES
    pc,         \* position of the run: start, preprocessed, projected, done, failed
    err,        \* the exception that ended the run ("" when none)
    errmsg,     \* what the message of that exception names ("" when nothing)
    args,       \* the arguments the caller gave to the stages so far
    mat,        \* the raw ensemble table in memory (scipy.io.loadmat result)
    extracted,  \* the core keys ExtractSamples has been applied to
    pre,        \* the dictionary returned by bamber19_preprocess_icesheets
    rng,        \* state of the generator built by np.random.default_rng
    draws,      \* the draws made from the generator, in order
    sel,        \* what pickScenario computed: integrated forcing, weights, uniform draws
    useHigh,    \* the mask returned by pickScenario
    sample_inds,\* the indices returned by rng.choice
    proj,       \* the dictionary returned by the projection function
    local,      \* the local cubes built by the postprocess stage
    files,      \* the output files written so far
    runNo,      \* 1 for the first run, 2 for its repetition
    first       \* what the first run produced

vars == <<pc, err, errmsg, args, mat, extracted, pre, rng, draws, sel, useHigh,
          sample_inds, proj, local, files, runNo, first>>

---------------------------------------------------------------------------
(* Bounds of the model *)

NumMembers == 3

MaxSeed == 2

MaxChunk == 4

---------------------------------------------------------------------------
(* Generic helpers on sequences and arrays (numpy semantics) *)

Row(arr, i) == arr[i + 1]

\* F applied to the value of v, with v evaluated once
Bind(v, F(_)) == CHOOSE r \in {F(x) : x \in {v}} : TRUE

Range(s) == {s[i] : i \in DOMAIN s}

NRows(arr) == Len(arr)

NCols(arr) == IF Len(arr) = 0 THEN 0 ELSE Len(arr[1])

AddArrays(a, b) == [m \in DOMAIN a |-> [j \in DOMAIN a[m] |-> a[m][j] + b[m][j]]]

RECURSIVE SelectIdx(_, _, _)
SelectIdx(s, keep, i) ==
    IF i > Len(s) THEN <<>>
    ELSE (IF keep[i] THEN <<s[i]>> ELSE <<>>) \o SelectIdx(s, keep, i + 1)

Arange(start, stop, step) ==
    IF stop <= start THEN <<>>
    ELSE [i \in 1..(((stop - start - 1) \div step) + 1) |-> start + (i - 1) * step]

---------------------------------------------------------------------------
(* Input data: the raw ensemble table (the .mat file) *)

CoreKeys == {"corefileH", "corefileL"}

MatIds == {1, 2}

RawYears(matId) ==
    IF matId = 1 THEN <<2010, 2020, 2030>> ELSE <<2000, 2010, 2020, 2030>>

SheetRow(sheet) == CASE sheet = "eais" -> 20 [] sheet = "wais" -> 19 [] sheet = "gis" -> 18

RawValue(core, sheet, m, j) ==
    4 * ((SheetRow(sheet) - 17) + 3 * m + j * j * (IF core = "corefileH" THEN 3 ELSE 1)
         + (IF core = "corefileH" THEN 20 ELSE 0))

RawCore(matId, core) ==
    [years |-> RawYears(matId),
     eais  |-> [m \in 1..NumMembers |-> [j \in 1..Len(RawYears(matId)) |-> RawValue(core, "eais", m, j)]],
     wais  |-> [m \in 1..NumMembers |-> [j \in 1..Len(RawYears(matId)) |-> RawValue(core, "wais", m, j)]],
     gis   |-> [m \in 1..NumMembers |-> [j \in 1..Len(RawYears(matId)) |-> RawValue(core, "gis", m, j)]]]

LoadMat(matId) == [core \in CoreKeys |-> RawCore(matId, core)]

---------------------------------------------------------------------------
(* Preprocess stage *)

AnchorYear == 2000

\* numpy.interp(x, xp, fp, left=left): the largest j with xp[j] <= x decides
\* the segment; the right end and exact hits return the tabulated value.
InterpSegment(x, xp) ==
    CHOOSE j \in DOMAIN xp : xp[j] <= x /\ \A k \in DOMAIN xp : xp[k] <= x => k <= j

Interp(x, xp, fp, left) ==
    LET n == Len(xp) IN
    IF x > xp[n] THEN fp[n]
    ELSE IF x < xp[1] THEN left
    ELSE LET j == InterpSegment(x, xp) IN
         IF j = n THEN fp[n]
         ELSE IF xp[j] = x THEN fp[j]
         ELSE (((fp[j + 1] - fp[j]) * (x - xp[j])) \div (xp[j + 1] - xp[j])) + fp[j]

\* As FindRefVals, but taking the value tabulated at the start of the segment
\* instead of interpolating inside it
FindRefVals_SegmentStart(timeseries, years, baseyear) ==
    LET xp == <<AnchorYear>> \o years
        fp == <<0>> \o timeseries
    IN  IF baseyear < xp[1] THEN 0 ELSE fp[InterpSegment(baseyear, xp)]

FindRefVals(timeseries, years, baseyear) ==
    Interp(baseyear, <<AnchorYear>> \o years, <<0>> \o timeseries, 0)

CenterRows(samps, years, baseyear) ==
    [m \in DOMAIN samps |->
        [j \in DOMAIN samps[m] |-> samps[m][j] - FindRefVals(samps[m], years, baseyear)]]

SubsetCols(samps, mat_years_idx) ==
    [m \in DOMAIN samps |-> SelectIdx(samps[m], mat_years_idx, 1)]

\* ExtractSamples: the centering is done in place on views of the table, so
\* the table itself ends up centered (field core); the returned arrays are
\* the columns of the raw years that are target years.
ExtractSamples(table, targyears, baseyear) ==
    LET mat_years     == table.years
        mat_years_idx == [j \in DOMAIN mat_years |-> mat_years[j] \in Range(targyears)]
        eais_c == CenterRows(table.eais, mat_years, baseyear)
        wais_c == CenterRows(table.wais, mat_years, baseyear)
        gis_c  == CenterRows(table.gis, mat_years, baseyear)
    IN  [core |-> [years |-> mat_years, eais |-> eais_c, wais |-> wais_c, gis |-> gis_c],
         wais |-> SubsetCols(wais_c, mat_years_idx),
         eais |-> SubsetCols(eais_c, mat_years_idx),
         gis  |-> SubsetCols(gis_c, mat_years_idx)]

\* As scenario_map, with the other scenario names mapped to a core table
scenario_map_OtherNamesMapped ==
    [s \in {"rcp85", "rcp26", "rcp45", "ssp585", "tlim2.0win0.25", "tlim5.0win0.25"} |->
        IF s \in {"rcp85", "ssp585", "tlim5.0win0.25"} THEN "corefileH" ELSE "corefileL"]

scenario_map ==
    [s \in {"rcp85", "rcp26", "tlim2.0win0.25", "tlim5.0win0.25"} |->
        IF s \in {"rcp85", "tlim5.0win0.25"} THEN "corefileH" ELSE "corefileL"]

---------------------------------------------------------------------------
(* Input data: the forcing (surface temperature) files *)

\* One <<base, a, b>> per ensemble member: the member's temperature is base
\* in 1850-1899, base + 7 in 1900, base + 50 in 1901-1999, base + a in
\* 2000-2049, base + b in 2050-2099 and base + b + 100 from 2100 on.
ForcingProfiles(cdf) ==
    IF cdf # 2
    THEN [rcp85  |-> << <<10, 142, 143>>, <<20, 192, 193>>, <<30, 242, 243>> >>,
          ssp585 |-> << <<10, 100, 100>>, <<20, 300, 300>>, <<30, 160, 165>> >>,
          rcp26  |-> << <<20, 142, 143>>, <<10, 100, 100>>, <<30, 50, 60>> >>,
          rcp45  |-> << <<10, 242, 243>>, <<20, 300, 300>>, <<30, 250, 260>> >>]
    ELSE [rcp85  |-> << <<10, 150, 155>>, <<20, 230, 235>>, <<30, 142, 143>>, <<40, 250, 250>> >>,
          ssp585 |-> << <<40, 250, 260>>, <<30, 242, 243>>, <<20, 300, 310>>, <<10, 400, 400>> >>]

\* The years axis: 1850..2300 in the files 1 and 2; the file 3 starts in
\* 1851, the file 4 has no 1900 and the file 5 ends in 2299
ForcingYears(cdf) ==
    CASE cdf = 3 -> [i \in 1..450 |-> 1850 + i]
      [] cdf = 4 -> [i \in 1..450 |-> IF i <= 50 THEN 1849 + i ELSE 1850 + i]
      [] cdf = 5 -> [i \in 1..450 |-> 1849 + i]
      [] OTHER   -> [i \in 1..451 |-> 1849 + i]

ForcingValue(profile, year) ==
    profile[1] + (IF year < 1900 THEN 0
                  ELSE IF year = 1900 THEN 7
                  ELSE IF year < 2000 THEN 50
                  ELSE IF year < 2050 THEN profile[2]
                  ELSE IF year < 2100 THEN profile[3]
                  ELSE profile[3] + 100)

\* One scenario group of the h5 file: years and surface_temperature[year, member]
ForcingFolder(cdf, scenario) ==
    LET years    == ForcingYears(cdf)
        profiles == ForcingProfiles(cdf)[scenario]
    IN  [years |-> years,
         surface_temperature |->
            [i \in DOMAIN years |->
                [m \in DOMAIN profiles |-> ForcingValue(profiles[m], years[i])]]]

ForcingKeys(cdf) == DOMAIN ForcingProfiles(cdf)

\* climate_data_file: 0 stands for None, 1 to 5 for the forcing files
ClimateFiles == {0, 1, 2, 3, 4, 5}

---------------------------------------------------------------------------
(* The random generator (np.random.default_rng) *)

RngMod == 8

\* As default_rng, but ignoring the seed: a generator that differs from one
\* run to the next
default_rng_Unseeded(seed) == (seed + runNo) % RngMod

default_rng(seed) == seed % RngMod

RngNext(s) == (5 * s + 3) % RngMod

\* rng.random(n): n successive uniform values in [0, 1), as numerators over RngMod
RECURSIVE RngRandom(_, _)
RngRandom(s, n) ==
    IF n = 0 THEN <<>> ELSE <<RngNext(s)>> \o RngRandom(RngNext(s), n - 1)

\* As RngAfter, but leaving the generator where it was: what a second
\* generator built from the same seed would give the next caller
RngAfter_NotAdvanced(s, vals) == s

RngAfter(s, vals) == IF vals = <<>> THEN s ELSE vals[Len(vals)]

RemoveAt(pool, p) == [i \in 1..(Len(pool) - 1) |-> IF i < p THEN pool[i] ELSE pool[i + 1]]

RECURSIVE DrawFromPool(_, _, _)
DrawFromPool(s, pool, k) ==
    IF k = 0 THEN <<>>
    ELSE LET r == RngNext(s)
             p == (r % Len(pool)) + 1
         IN  << <<pool[p], r>> >> \o DrawFromPool(r, RemoveAt(pool, p), k - 1)

\* As CannotSample, but refusing a large sample with replacement too
CannotSample_AlsoWithReplacement(n, k, replace) == k > n

\* "Cannot take a larger sample than population when replace is False"
CannotSample(n, k, replace) == ~replace /\ k > n

\* As RngChoice, but drawing with replacement whatever the flag says
RngChoice_AlwaysReplace(s, n, k, replace) ==
    IF CannotSample(n, k, replace)
    THEN [ok |-> FALSE, inds |-> <<>>, rng |-> s]
    ELSE LET vals == RngRandom(s, k)
         IN  [ok |-> TRUE, inds |-> [i \in 1..k |-> vals[i] % n], rng |-> RngAfter(s, vals)]

\* rng.choice(n, size=k, replace=replace): 0-based indices into 0..n-1
RngChoice(s, n, k, replace) ==
    IF CannotSample(n, k, replace)
    THEN [ok |-> FALSE, inds |-> <<>>, rng |-> s]
    ELSE IF replace
    THEN LET vals == RngRandom(s, k)
         IN  [ok |-> TRUE, inds |-> [i \in 1..k |-> vals[i] % n], rng |-> RngAfter(s, vals)]
    ELSE LET picks == DrawFromPool(s, [i \in 1..n |-> i - 1], k)
         IN  [ok |-> TRUE, inds |-> [i \in 1..k |-> picks[i][1]],
              rng |-> IF k = 0 THEN s ELSE picks[k][2]]

---------------------------------------------------------------------------
(* Scenario selector: GetSATData and pickScenario *)

refyear_start == 1850

refyear_end == 1900

year_start == 1900

year_end == 2300

\* np.flatnonzero(years == y): the positions (1-based here) holding y
Flatnonzero(years, y) == {i \in DOMAIN years : years[i] = y}

FirstOf(S) == CHOOSE i \in S : \A k \in S : i <= k

SliceRows(arr, from, to) == [i \in 1..(to - from) |-> arr[from + i - 1]]

RECURSIVE SumCol(_, _, _)
SumCol(arr, m, i) == IF i > Len(arr) THEN 0 ELSE arr[i][m] + SumCol(arr, m, i + 1)

\* GetSATData.  The mean over the reference rows is exact as a fraction, so
\* SAT is returned times the number of reference rows (field den).
GetSATData(cdf, scenario) ==
    IF scenario \notin ForcingKeys(cdf)
    THEN [err |-> "ValueError", msg |-> scenario,
          SAT |-> <<>>, den |-> 1, Time |-> <<>>, nens |-> 0]
    ELSE Bind(ForcingFolder(cdf, scenario), LAMBDA ssp_folder :
         Bind(<<Flatnonzero(ssp_folder.years, refyear_start),
                Flatnonzero(ssp_folder.years, refyear_end),
                Flatnonzero(ssp_folder.years, year_start),
                Flatnonzero(ssp_folder.years, year_end)>>, LAMBDA hits :
           LET sat_ssp == ssp_folder.surface_temperature
               nens    == Len(sat_ssp[1])
           IN  IF \E k \in 1..4 : hits[k] = {}
               THEN [err |-> "IndexError", msg |-> "", SAT |-> <<>>, den |-> 1,
                     Time |-> <<>>, nens |-> nens]
               ELSE Bind([refyear_start_idx |-> FirstOf(hits[1]),
                          refyear_end_idx   |-> FirstOf(hits[2]),
                          year_start_idx    |-> FirstOf(hits[3]),
                          year_end_idx      |-> FirstOf(hits[4]) + 1], LAMBDA ix :
                    Bind(SliceRows(sat_ssp, ix.refyear_start_idx, ix.refyear_end_idx),
                         LAMBDA refrows :
                    Bind([m \in 1..nens |-> SumCol(refrows, m, 1)], LAMBDA SATsum :
                    Bind(SliceRows(sat_ssp, ix.year_start_idx, ix.year_end_idx),
                         LAMBDA crop :
                      [err |-> "", msg |-> "",
                       SAT |-> [i \in DOMAIN crop |->
                                  [m \in 1..nens |-> Len(refrows) * crop[i][m] - SATsum[m]]],
                       den |-> Len(refrows),
                       Time |-> Arange(year_start, year_end + 1, 1),
                       nens |-> nens]))))))

\* As iSAT_marker, with the anchors a degree further apart on each side
iSAT_marker_Wider == <<4250, 34250>>

\* Integrated-forcing anchors 142.5 and 242.5, in hundredths of a degree
iSAT_marker == <<14250, 24250>>

Min(a, b) == IF a <= b THEN a ELSE b

Max(a, b) == IF a >= b THEN a ELSE b

\* f2 = minimum(1, maximum(0, (iSAT - marker[0]) / (marker[1] - marker[0]))),
\* for iSAT = iSATnum / den hundredths; the weight is num / wden.
\* As ScenarioWeight, without the clamp to [0, 1]
ScenarioWeight_Unclamped(iSATnum, den) ==
    [num  |-> iSATnum - iSAT_marker[1] * den,
     wden |-> (iSAT_marker[2] - iSAT_marker[1]) * den]

ScenarioWeight(iSATnum, den) ==
    LET wden == (iSAT_marker[2] - iSAT_marker[1]) * den
    IN  [num  |-> Min(wden, Max(0, iSATnum - iSAT_marker[1] * den)),
         wden |-> wden]

\* As SelectorBelow, with a comparison that is not strict
SelectorBelow_NotStrict(r, w) == r * w.wden <= w.num * RngMod

\* selector < weights, for selector = r / RngMod
SelectorBelow(r, w) == r * w.wden < w.num * RngMod

\* As IntegratedSAT, but with the year 2100 inside the integration window
IntegratedSAT_Through2100(cdf, scenario) ==
    Bind(GetSATData(cdf, scenario), LAMBDA sat :
    Bind({i \in DOMAIN sat.Time : sat.Time[i] <= 2100 /\ sat.Time[i] >= 2000}, LAMBDA x2 :
        IF sat.err # ""
        THEN [err |-> sat.err, msg |-> sat.msg, iSAT |-> <<>>, den |-> sat.den]
        ELSE IF \E i \in x2 : i > Len(sat.SAT)
        THEN [err |-> "IndexError", msg |-> "", iSAT |-> <<>>, den |-> sat.den]
        ELSE Bind(SliceRows(sat.SAT, FirstOf(x2), FirstOf(x2) + Cardinality(x2)),
                  LAMBDA SAT2 :
                 [err |-> "", msg |-> "",
                  iSAT |-> [m \in 1..sat.nens |-> SumCol(SAT2, m, 1)],
                  den |-> sat.den])))

\* As IntegratedSAT, but with no integrated forcing instead of a failure when
\* the years axis lacks one of the years looked up
IntegratedSAT_MissingYearTolerated(cdf, scenario) ==
    Bind(GetSATData(cdf, scenario), LAMBDA sat :
    Bind({i \in DOMAIN sat.Time : sat.Time[i] < 2100 /\ sat.Time[i] >= 2000}, LAMBDA x2 :
        IF sat.err = "IndexError"
        THEN [err |-> "", msg |-> "", iSAT |-> [m \in 1..sat.nens |-> 0], den |-> sat.den]
        ELSE IF sat.err # ""
        THEN [err |-> sat.err, msg |-> sat.msg, iSAT |-> <<>>, den |-> sat.den]
        ELSE IF \E i \in x2 : i > Len(sat.SAT)
        THEN [err |-> "IndexError", msg |-> "", iSAT |-> <<>>, den |-> sat.den]
        ELSE Bind(SliceRows(sat.SAT, FirstOf(x2), FirstOf(x2) + Cardinality(x2)),
                  LAMBDA SAT2 :
                 [err |-> "", msg |-> "",
                  iSAT |-> [m \in 1..sat.nens |-> SumCol(SAT2, m, 1)],
                  den |-> sat.den])))

\* pickScenario up to the integrated forcing: GetSATData, the rows of the
\* years 2000..2099 by their position in Time, and their sum per member.
IntegratedSAT(cdf, scenario) ==
    Bind(GetSATData(cdf, scenario), LAMBDA sat :
    Bind({i \in DOMAIN sat.Time : sat.Time[i] < 2100 /\ sat.Time[i] >= 2000}, LAMBDA x2 :
        IF sat.err # ""
        THEN [err |-> sat.err, msg |-> sat.msg, iSAT |-> <<>>, den |-> sat.den]
        ELSE IF \E i \in x2 : i > Len(sat.SAT)
        THEN [err |-> "IndexError", msg |-> "", iSAT |-> <<>>, den |-> sat.den]
        ELSE Bind(SliceRows(sat.SAT, FirstOf(x2), FirstOf(x2) + Cardinality(x2)),
                  LAMBDA SAT2 :
                 [err |-> "", msg |-> "",
                  iSAT |-> [m \in 1..sat.nens |-> SumCol(SAT2, m, 1)],
                  den |-> sat.den])))

\* The forcing files are read-only: their integrated forcing is tabulated once.
IntegratedSATOf ==
    [cdf \in ClimateFiles \ {0} |->
        [sc \in {"rcp85", "rcp26", "rcp45", "ssp585"} |-> IntegratedSAT(cdf, sc)]]

\* As pickScenario, but drawing a uniform value before the scenario is
\* looked up in the forcing file
pickScenario_DrawsBeforeLookup(cdf, scenario, s) ==
    LET int == IntegratedSATOf[cdf][scenario]
        nens == Len(int.iSAT)
        weights == [m \in 1..nens |-> ScenarioWeight(int.iSAT[m], int.den)]
        selector == RngRandom(s, nens)
    IN  IF int.err # ""
        THEN [err |-> int.err, msg |-> int.msg, useHigh |-> <<>>,
              rng |-> RngNext(s), iSAT |-> <<>>,
              den |-> int.den, weights |-> <<>>, selector |-> <<>>]
        ELSE [err |-> "", msg |-> "",
              useHigh |-> [m \in 1..nens |-> SelectorBelow(selector[m], weights[m])],
              rng |-> RngAfter(s, selector),
              iSAT |-> int.iSAT, den |-> int.den,
              weights |-> weights, selector |-> selector]

pickScenario(cdf, scenario, s) ==
    LET int == IntegratedSATOf[cdf][scenario]
        nens == Len(int.iSAT)
        weights == [m \in 1..nens |-> ScenarioWeight(int.iSAT[m], int.den)]
        selector == RngRandom(s, nens)
    IN  IF int.err # ""
        THEN [err |-> int.err, msg |-> int.msg, useHigh |-> <<>>, rng |-> s, iSAT |-> <<>>,
              den |-> int.den, weights |-> <<>>, selector |-> <<>>]
        ELSE [err |-> "", msg |-> "",
              useHigh |-> [m \in 1..nens |-> SelectorBelow(selector[m], weights[m])],
              rng |-> RngAfter(s, selector),
              iSAT |-> int.iSAT, den |-> int.den,
              weights |-> weights, selector |-> selector]

---------------------------------------------------------------------------
(* The arguments a caller can give *)

Scenarios == {"rcp85", "rcp26", "rcp45", "ssp585"}

\* Base years of whole runs, and the wider set the extraction is tried on
BaseYears == {2000, 2005}

ExtractBaseYears == {1995, 2000, 2005, 2010, 2015, 2035}

\* <<pyear_start, pyear_end, pyear_step>>
TargSpecs == {<<2020, 2030, 10>>, <<2020, 2030, 5>>}


Drivers == {"api", "cli"}

NoArgs ==
    [driver |-> "api", pyear_start |-> 0, pyear_end |-> 0, pyear_step |-> 0,
     baseyear |-> 0, scenario |-> "", matId |-> 0, climate_data_file |-> 0,
     nsamps |-> 0, replace |-> FALSE, rngseed |-> 0, gpaths |-> {},
     chunksize |-> 0, fpdir |-> 0, lpaths |-> {}]

NoTable == [years |-> <<>>, eais |-> <<>>, wais |-> <<>>, gis |-> <<>>]

NoDict == [samps |-> [k \in {} |-> <<>>], years |-> <<>>, baseyear |-> 0, scenario |-> ""]

NoLocal == [k \in {} |-> <<>>]

NoSel == [iSAT |-> <<>>, den |-> 1, weights |-> <<>>, selector |-> <<>>]

NoFirst == [pc |-> "", err |-> "", proj |-> NoDict, local |-> NoLocal,
            useHigh |-> <<>>, sample_inds |-> <<>>, files |-> {}]

Init ==
    /\ pc = "start"
    /\ err = ""
    /\ errmsg = ""
    /\ \E d \in Drivers : args = [NoArgs EXCEPT !.driver = d]
    /\ mat = [core \in CoreKeys |-> NoTable]
    /\ extracted = {}
    /\ pre = NoDict
    /\ rng = 0
    /\ draws = <<>>
    /\ sel = NoSel
    /\ useHigh = <<>>
    /\ sample_inds = <<>>
    /\ proj = NoDict
    /\ local = NoLocal
    /\ files = {}
    /\ runNo = 1
    /\ first = NoFirst

Fail(e) == pc' = "failed" /\ err' = e /\ errmsg' = ""

\* A failure whose message names m
FailNaming(e, m) == pc' = "failed" /\ err' = e /\ errmsg' = m

---------------------------------------------------------------------------
(* bamber19_preprocess_icesheets *)

PreprocessTemperature(a, loaded, targyears) ==
    LET exH == ExtractSamples(loaded["corefileH"], targyears, a.baseyear)
        exL == ExtractSamples(loaded["corefileL"], targyears, a.baseyear)
    IN  /\ mat' = [core \in CoreKeys |-> IF core = "corefileH" THEN exH.core ELSE exL.core]
        /\ extracted' = {"corefileH", "corefileL"}
        /\ pre' = [samps |-> [eais_sampsH |-> exH.eais, wais_sampsH |-> exH.wais,
                              ais_sampsH |-> AddArrays(exH.eais, exH.wais),
                              gis_sampsH |-> exH.gis,
                              eais_sampsL |-> exL.eais, wais_sampsL |-> exL.wais,
                              ais_sampsL |-> AddArrays(exL.eais, exL.wais),
                              gis_sampsL |-> exL.gis],
                   years |-> targyears, baseyear |-> a.baseyear, scenario |-> a.scenario]
        /\ pc' = "preprocessed"
        /\ err' = ""
        /\ errmsg' = ""

PreprocessScenario(a, loaded, targyears) ==
    IF a.scenario \notin DOMAIN scenario_map
    THEN /\ FailNaming("KeyError", a.scenario)
         /\ mat' = loaded
         /\ UNCHANGED <<extracted, pre>>
    ELSE LET this_corefile == scenario_map[a.scenario]
             ex == ExtractSamples(loaded[this_corefile], targyears, a.baseyear)
         IN  /\ mat' = [loaded EXCEPT ![this_corefile] = ex.core]
             /\ extracted' = {this_corefile}
             /\ pre' = [samps |-> [eais_samps |-> ex.eais, wais_samps |-> ex.wais,
                                   ais_samps |-> AddArrays(ex.eais, ex.wais),
                                   gis_samps |-> ex.gis],
                        years |-> targyears, baseyear |-> a.baseyear,
                        scenario |-> a.scenario]
             /\ pc' = "preprocessed"
             /\ err' = ""
             /\ errmsg' = ""

bamber19_preprocess_icesheets(baseyears) ==
    /\ pc = "start"
    /\ \E ts \in TargSpecs, by \in baseyears, sc \in Scenarios,
          mid \in MatIds, cdf \in ClimateFiles :
          LET a == [args EXCEPT !.pyear_start = ts[1], !.pyear_end = ts[2],
                                !.pyear_step = ts[3], !.baseyear = by,
                                !.scenario = sc, !.matId = mid,
                                !.climate_data_file = cdf]
              targyears == Arange(a.pyear_start, a.pyear_end + 1, a.pyear_step)
              loaded == LoadMat(a.matId)
          IN  /\ runNo = 2 => a = args
              /\ args' = a
              /\ IF a.climate_data_file # 0
                 THEN PreprocessTemperature(a, loaded, targyears)
                 ELSE PreprocessScenario(a, loaded, targyears)
    /\ UNCHANGED <<rng, draws, sel, useHigh, sample_inds, proj, local, files, runNo, first>>

Preprocess == bamber19_preprocess_icesheets(BaseYears)

PreprocessOnly == bamber19_preprocess_icesheets(ExtractBaseYears)

---------------------------------------------------------------------------
(* Calls by keyword: a call binds when every name passed is a parameter   *)
(* and every parameter (none has a default) is passed.                    *)

Binds(passed, params) == passed \subseteq params /\ params \subseteq passed

ProjectSingleParams ==
    {"nsamps", "replace", "rngseed", "preprocess_output", "output_AIS_glslr_file",
     "output_GIS_glslr_file", "output_WAIS_glslr_file", "output_EAIS_glslr_file"}

ProjectTemperatureParams ==
    {"climate_data_file", "replace", "rngseed", "preprocess_output",
     "output_EAIS_gslr_file", "output_WAIS_gslr_file", "output_GIS_gslr_file",
     "output_AIS_gslr_file"}

PostprocessParams ==
    {"projection_dict", "location_fpath", "chunksize", "fpdir", "pipeline_id", "output_path"}

CliProjectSingleKwargs ==
    {"nsamps", "replace", "rngseed", "preprocess_output", "output_AIS_gslr_file",
     "output_GIS_gslr_file", "output_WAIS_gslr_file", "output_EAIS_gslr_file"}

CliProjectTemperatureKwargs ==
    {"climate_data_file", "replace", "rngseed", "preprocess_output",
     "output_AIS_gslr_file", "output_GIS_gslr_file", "output_WAIS_gslr_file",
     "output_EAIS_gslr_file"}

CliPostprocessKwargs ==
    {"projection_dict", "location_fpath", "chunksize", "fpdir", "output_EAIS_lslr_file",
     "output_WAIS_lslr_file", "output_GIS_lslr_file", "output_AIS_lslr_file"}

---------------------------------------------------------------------------
(* Projection stage *)

\* The order in which the projection functions write the global files
GlobalOrder == <<"EAIS", "WAIS", "AIS", "GIS">>

SampsKey(sheet) ==
    CASE sheet = "EAIS" -> "eais_samps" [] sheet = "WAIS" -> "wais_samps"
      [] sheet = "AIS" -> "ais_samps" [] sheet = "GIS" -> "gis_samps"

\* xarray refuses a Dataset whose data and coordinates disagree on a dimension
\* As make_projection_ds, without the agreement of the array with its
\* coordinates being checked
make_projection_ds_Unchecked(ice_source, global_samps, years, nsamples, scenario, baseyear) ==
    [ok |-> TRUE,
     ds |-> [kind |-> "global", sheet |-> ice_source, scenario |-> scenario,
             baseyear |-> baseyear, units |-> "mm"]]

make_projection_ds(ice_source, global_samps, years, nsamples, scenario, baseyear) ==
    [ok |-> NCols(global_samps) = Len(years) /\ NRows(global_samps) = nsamples,
     ds |-> [kind |-> "global", sheet |-> ice_source, scenario |-> scenario,
             baseyear |-> baseyear, units |-> "mm"]]

RECURSIVE WriteGlobals(_, _, _, _, _, _, _, _)
WriteGlobals(i, samps, years, nsamples, scenario, baseyear, paths, written) ==
    IF i > Len(GlobalOrder) THEN [ok |-> TRUE, files |-> written]
    ELSE IF GlobalOrder[i] \notin paths
    THEN WriteGlobals(i + 1, samps, years, nsamples, scenario, baseyear, paths, written)
    ELSE LET made == make_projection_ds(GlobalOrder[i], samps[SampsKey(GlobalOrder[i])],
                                        years, nsamples, scenario, baseyear)
         IN  IF ~made.ok THEN [ok |-> FALSE, files |-> written]
             ELSE WriteGlobals(i + 1, samps, years, nsamples, scenario, baseyear, paths,
                               written \cup {made.ds})

\* As GatherRows, but reading the array from its last row backwards
GatherRows_FromTheEnd(arr, inds) == [i \in DOMAIN inds |-> arr[Len(arr) - inds[i]]]

\* arr[sample_inds, :]
GatherRows(arr, inds) == [i \in DOMAIN inds |-> Row(arr, inds[i])]

\* As OverwriteHigh, with the mask read inverted
OverwriteHigh_Inverted(samps, high, inds, mask) ==
    [i \in DOMAIN samps |-> IF ~mask[i] THEN Row(high, inds[i]) ELSE samps[i]]

\* samps[useHigh, :] = high[sample_inds[useHigh], :]
OverwriteHigh(samps, high, inds, mask) ==
    [i \in DOMAIN samps |-> IF mask[i] THEN Row(high, inds[i]) ELSE samps[i]]

NsampsSet == {NumMembers - 1, NumMembers, NumMembers + 1}

GPathSets == {{}, {"WAIS", "GIS"}, {"EAIS", "WAIS", "AIS", "GIS"}}

\* The body of bamber19_project_icesheets: the generator, the index draw,
\* the gathered rows, the files written and the returned dictionary.
ProjectSingleResult(a, p, written) ==
    LET s0 == default_rng(a.rngseed)
        ch == RngChoice(s0, NRows(p.samps["ais_samps"]), a.nsamps, a.replace)
        out == [eais_samps |-> GatherRows(p.samps["eais_samps"], ch.inds),
                wais_samps |-> GatherRows(p.samps["wais_samps"], ch.inds),
                ais_samps  |-> GatherRows(p.samps["ais_samps"], ch.inds),
                gis_samps  |-> GatherRows(p.samps["gis_samps"], ch.inds)]
        wr == WriteGlobals(1, out, p.years, a.nsamps, p.scenario, p.baseyear,
                           a.gpaths, written)
    IN  IF ~ch.ok
        THEN [err |-> "ValueError", rng |-> s0, draws |-> <<>>, inds |-> <<>>,
              files |-> written, out |-> NoDict]
        ELSE [err |-> IF wr.ok THEN "" ELSE "ValueError",
              rng |-> ch.rng, draws |-> << <<"choice", a.nsamps>> >>, inds |-> ch.inds,
              files |-> wr.files,
              out |-> IF wr.ok
                      THEN [samps |-> out, years |-> p.years,
                            scenario |-> "temperature-driven", baseyear |-> p.baseyear]
                      ELSE NoDict]

ProjectSingleBody(a) ==
    \E r \in {ProjectSingleResult(a, pre, files)} :
        /\ rng' = r.rng
        /\ draws' = draws \o r.draws
        /\ sample_inds' = r.inds
        /\ files' = r.files
        /\ proj' = r.out
        /\ pc' = IF r.err = "" THEN "projected" ELSE "failed"
        /\ err' = r.err
        /\ errmsg' = ""

bamber19_project_icesheets ==
    /\ pc = "preprocessed"
    /\ args.climate_data_file = 0
    /\ IF args.driver = "cli" /\ ~Binds(CliProjectSingleKwargs, ProjectSingleParams)
       THEN /\ Fail("TypeError")
            /\ UNCHANGED <<args, rng, draws, sample_inds, proj, files>>
       ELSE \E n \in NsampsSet, rep \in BOOLEAN, seed \in 0..MaxSeed, gp \in GPathSets :
               LET a == [args EXCEPT !.nsamps = n, !.replace = rep, !.rngseed = seed,
                                     !.gpaths = gp]
               IN  /\ runNo = 2 => a = args
                   /\ args' = a
                   /\ ProjectSingleBody(a)
    /\ UNCHANGED <<mat, extracted, pre, sel, useHigh, local, runNo, first>>

\* As MixHighLow, but the AIS rows are left as gathered from the low ensemble
MixHighLow_AisNotOverwritten(p, key, inds, mask) ==
    IF key = "ais_samps"
    THEN GatherRows(p.samps[key \o "L"], inds)
    ELSE [i \in DOMAIN inds |->
            IF mask[i] THEN Row(p.samps[key \o "H"], inds[i])
            ELSE Row(p.samps[key \o "L"], inds[i])]

\* The mixing step of the temperature-driven projection: rows gathered from
\* the low ensemble, then overwritten from the high ensemble where the mask
\* is True.
MixHighLow(p, key, inds, mask) ==
    OverwriteHigh(GatherRows(p.samps[key \o "L"], inds), p.samps[key \o "H"], inds, mask)

\* As LowAfterOverwrite, with the gathered rows being views of the low
\* ensemble: the overwrite writes through to the rows they were taken from
LowAfterOverwrite_ThroughView(low, high, inds, mask) ==
    [m \in DOMAIN low |->
        IF \E i \in DOMAIN inds : mask[i] /\ inds[i] + 1 = m THEN high[m] ELSE low[m]]

\* The low ensemble after samps[useHigh, :] = high[sample_inds[useHigh], :]:
\* samps = low[sample_inds, :] is indexed by an integer array, which copies,
\* so the assignment writes nothing to low
LowAfterOverwrite(low, high, inds, mask) == low

\* The preprocess output after the four overwrites
PreAfterMixing(p, inds, mask) ==
    [p EXCEPT !.samps =
        [k \in DOMAIN p.samps |->
            CASE k = "eais_sampsL" ->
                    LowAfterOverwrite(p.samps[k], p.samps["eais_sampsH"], inds, mask)
              [] k = "wais_sampsL" ->
                    LowAfterOverwrite(p.samps[k], p.samps["wais_sampsH"], inds, mask)
              [] k = "ais_sampsL" ->
                    LowAfterOverwrite(p.samps[k], p.samps["ais_sampsH"], inds, mask)
              [] k = "gis_sampsL" ->
                    LowAfterOverwrite(p.samps[k], p.samps["gis_sampsH"], inds, mask)
              [] OTHER -> p.samps[k]]]

\* The body of bamber19_project_icesheets_temperaturedriven, after the mask
\* has been picked.
ProjectTemperatureResult(a, p, written, pick) ==
    LET nsamps == Len(pick.useHigh)
        ch  == RngChoice(pick.rng, NRows(p.samps["ais_sampsL"]), nsamps, a.replace)
        out == [eais_samps |-> MixHighLow(p, "eais_samps", ch.inds, pick.useHigh),
                wais_samps |-> MixHighLow(p, "wais_samps", ch.inds, pick.useHigh),
                ais_samps  |-> MixHighLow(p, "ais_samps", ch.inds, pick.useHigh),
                gis_samps  |-> MixHighLow(p, "gis_samps", ch.inds, pick.useHigh)]
        wr  == WriteGlobals(1, out, p.years, nsamps, p.scenario, p.baseyear,
                            a.gpaths, written)
    IN  IF ~ch.ok
        THEN [err |-> "ValueError", rng |-> pick.rng,
              draws |-> << <<"random", nsamps>> >>, inds |-> <<>>,
              files |-> written, out |-> NoDict, pre |-> p]
        ELSE [err |-> IF wr.ok THEN "" ELSE "ValueError",
              rng |-> ch.rng,
              draws |-> << <<"random", nsamps>>, <<"choice", nsamps>> >>,
              inds |-> ch.inds,
              files |-> wr.files,
              pre |-> PreAfterMixing(p, ch.inds, pick.useHigh),
              out |-> IF wr.ok
                      THEN [samps |-> out, years |-> p.years,
                            scenario |-> p.scenario, baseyear |-> p.baseyear]
                      ELSE NoDict]

ProjectTemperatureBody(a) ==
    \E pick \in {pickScenario(a.climate_data_file, pre.scenario, default_rng(a.rngseed))} :
        IF pick.err # ""
        THEN /\ FailNaming(pick.err, pick.msg)
             /\ rng' = pick.rng
             /\ UNCHANGED <<draws, sel, useHigh, sample_inds, proj, files, pre>>
        ELSE \E r \in {ProjectTemperatureResult(a, pre, files, pick)} :
                /\ pre' = r.pre
                /\ sel' = [iSAT |-> pick.iSAT, den |-> pick.den,
                           weights |-> pick.weights, selector |-> pick.selector]
                /\ useHigh' = pick.useHigh
                /\ rng' = r.rng
                /\ draws' = draws \o r.draws
                /\ sample_inds' = r.inds
                /\ files' = r.files
                /\ proj' = r.out
                /\ pc' = IF r.err = "" THEN "projected" ELSE "failed"
                /\ err' = r.err
                /\ errmsg' = ""

bamber19_project_icesheets_temperaturedriven ==
    /\ pc = "preprocessed"
    /\ args.climate_data_file # 0
    /\ IF args.driver = "cli"
          /\ ~Binds(CliProjectTemperatureKwargs, ProjectTemperatureParams)
       THEN /\ Fail("TypeError")
            /\ UNCHANGED <<args, rng, draws, sel, useHigh, sample_inds, proj, files, pre>>
       ELSE \E rep \in BOOLEAN, seed \in 0..MaxSeed, gp \in GPathSets :
               LET a == [args EXCEPT !.replace = rep, !.rngseed = seed, !.gpaths = gp]
               IN  /\ runNo = 2 => a = args
                   /\ args' = a
                   /\ ProjectTemperatureBody(a)
    /\ UNCHANGED <<mat, extracted, local, runNo, first>>

---------------------------------------------------------------------------
(* Postprocess stage: fingerprint localization *)

\* np.nan, the missing value: a number no product or sum of the data reaches
NaN == -1000000

\* Floating-point product and sum: a missing operand gives a missing result
Times(a, b) == IF a = NaN \/ b = NaN THEN NaN ELSE a * b

\* As Plus, but skipping a missing operand the way np.nansum does
Plus_SkipMissing(a, b) == IF a = NaN THEN b ELSE IF b = NaN THEN a ELSE a + b

Plus(a, b) == IF a = NaN \/ b = NaN THEN NaN ELSE a + b

\* fpdir: two fingerprint directories, the second with sites where a
\* fingerprint has no value
FpDirs == {1, 2}

\* The values AssignFP returns for the sites of the location file
Fingerprints(fpdir) ==
    IF fpdir = 1
    THEN [gis |-> <<1, 0, 2>>, wais |-> <<2, 1, 0>>, eais |-> <<0, 2, 1>>]
    ELSE [gis |-> <<1, NaN, 2>>, wais |-> <<2, 1, NaN>>, eais |-> <<NaN, 2, 1>>]

\* dask rechunk(chunksize): consecutive blocks of chunksize locations, the
\* last one shorter when chunksize does not divide the length
\* As Rechunk, but keeping only the chunks that are full
Rechunk_FullChunksOnly(fp, chunksize) ==
    [k \in 1..(Len(fp) \div chunksize) |->
        SubSeq(fp, (k - 1) * chunksize + 1, k * chunksize)]

Rechunk(fp, chunksize) ==
    [k \in 1..((Len(fp) + chunksize - 1) \div chunksize) |->
        SubSeq(fp, (k - 1) * chunksize + 1, Min(k * chunksize, Len(fp)))]

\* As OuterBlock, adding the fingerprint instead of multiplying by it
OuterBlock_Sum(samps, block) ==
    [s \in DOMAIN samps |->
        [y \in DOMAIN samps[s] |-> [l \in DOMAIN block |-> samps[s][y] + block[l]]]]

OuterBlock(samps, block) ==
    [s \in DOMAIN samps |->
        [y \in DOMAIN samps[s] |-> [l \in DOMAIN block |-> Times(samps[s][y], block[l])]]]

RECURSIVE ConcatBlocks(_, _, _, _)
ConcatBlocks(cubes, s, y, k) ==
    IF k > Len(cubes) THEN <<>>
    ELSE cubes[k][s][y] \o ConcatBlocks(cubes, s, y, k + 1)

\* np.multiply.outer(samps, fp) on a chunked fp: one block of the result per
\* chunk, assembled along the location axis
multiply_outer(samps, chunks) ==
    LET cubes == [k \in DOMAIN chunks |-> OuterBlock(samps, chunks[k])]
    IN  [s \in DOMAIN samps |-> [y \in DOMAIN samps[s] |-> ConcatBlocks(cubes, s, y, 1)]]

AddCubes(a, b) ==
    [s \in DOMAIN a |-> [y \in DOMAIN a[s] |-> [l \in DOMAIN a[s][y] |-> Plus(a[s][y][l], b[s][y][l])]]]

\* The order in which the postprocess stage writes the local files
LocalOrder == <<"GIS", "WAIS", "EAIS", "AIS">>

PostprocessResult(a, p, written) ==
    LET eais_samps == p.samps["eais_samps"]
        wais_samps == p.samps["wais_samps"]
        gis_samps  == p.samps["gis_samps"]
        targyears  == p.years
        gissl  == multiply_outer(gis_samps, Rechunk(Fingerprints(a.fpdir).gis, a.chunksize))
        waissl == multiply_outer(wais_samps, Rechunk(Fingerprints(a.fpdir).wais, a.chunksize))
        eaissl == multiply_outer(eais_samps, Rechunk(Fingerprints(a.fpdir).eais, a.chunksize))
        aissl  == AddCubes(waissl, eaissl)
    IN  IF NCols(gis_samps) # Len(targyears)
        THEN [err |-> "ValueError", local |-> NoLocal, files |-> written]
        ELSE [err |-> "",
              local |-> [gis |-> gissl, wais |-> waissl, eais |-> eaissl, ais |-> aissl],
              files |-> written \cup
                  {[kind |-> "local", sheet |-> LocalOrder[i], scenario |-> p.scenario,
                    baseyear |-> p.baseyear, units |-> "mm"] : i \in DOMAIN LocalOrder}]

\* The ice sheets for which the command line is given an
\* --output-<SHEET>-lslr-file option
LPathSets == {{}, {"GIS", "AIS"}, {"GIS", "WAIS", "EAIS", "AIS"}}

bamber19_postprocess_icesheets ==
    /\ pc = "projected"
    /\ IF args.driver = "cli" /\ ~Binds(CliPostprocessKwargs, PostprocessParams)
       THEN /\ \E lp \in LPathSets :
                  LET a == [args EXCEPT !.lpaths = lp]
                  IN  /\ runNo = 2 => a = args
                      /\ args' = a
            /\ Fail("TypeError")
            /\ UNCHANGED <<local, files>>
       ELSE \E c \in 1..MaxChunk, fpdir \in FpDirs :
               LET a == [args EXCEPT !.chunksize = c, !.fpdir = fpdir]
               IN  /\ runNo = 2 => a = args
                   /\ args' = a
                   /\ \E r \in {PostprocessResult(a, proj, files)} :
                         /\ local' = r.local
                         /\ files' = r.files
                         /\ pc' = IF r.err = "" THEN "done" ELSE "failed"
                         /\ err' = r.err
                         /\ errmsg' = ""
    /\ UNCHANGED <<mat, extracted, pre, rng, draws, sel, useHigh, sample_inds, proj,
                   runNo, first>>

---------------------------------------------------------------------------
(* A second run of the same command: same files, same arguments, same seed *)

Rerun ==
    /\ pc \in {"done", "failed"}
    /\ runNo = 1
    /\ runNo' = 2
    /\ first' = [pc |-> pc, err |-> err, proj |-> proj, local |-> local,
                 useHigh |-> useHigh, sample_inds |-> sample_inds, files |-> files]
    /\ pc' = "start"
    /\ err' = ""
    /\ errmsg' = ""
    /\ mat' = [core \in CoreKeys |-> NoTable]
    /\ extracted' = {}
    /\ pre' = NoDict
    /\ rng' = 0
    /\ draws' = <<>>
    /\ sel' = NoSel
    /\ useHigh' = <<>>
    /\ sample_inds' = <<>>
    /\ proj' = NoDict
    /\ local' = NoLocal
    /\ files' = {}
    /\ UNCHANGED args

Next ==
    \/ Preprocess
    \/ bamber19_project_icesheets
    \/ bamber19_project_icesheets_temperaturedriven
    \/ bamber19_postprocess_icesheets

Spec == Init /\ [][Next]_vars

\* The extraction alone, over the wider set of base years
SpecExtract == Init /\ [][PreprocessOnly]_vars

\* A run followed by its repetition
NextTwice ==
    \/ Next
    \/ Rerun

SpecTwice == Init /\ [][NextTwice]_vars

---------------------------------------------------------------------------
(* Properties *)

TemperatureDriven == args.climate_data_file # 0

Projected == proj # NoDict

SheetKeys == {"eais_samps", "wais_samps", "ais_samps", "gis_samps"}

MixedMask == (\E i \in DOMAIN useHigh : useHigh[i]) /\ (\E i \in DOMAIN useHigh : ~useHigh[i])

\* C1: AIS = EAIS + WAIS elementwise in the arrays returned by the
\* preprocess stage, in the global cube returned by either projection
\* function (after index gathering and after high/low mixing) and in the
\* local cube of the postprocess stage.
C1_AisIsEaisPlusWais ==
    /\ \A sfx \in {"", "H", "L"} :
          ("ais_samps" \o sfx) \in DOMAIN pre.samps =>
              pre.samps["ais_samps" \o sfx] =
                  AddArrays(pre.samps["eais_samps" \o sfx], pre.samps["wais_samps" \o sfx])
    /\ Projected =>
          \A i \in DOMAIN proj.samps["ais_samps"] :
             \A j \in DOMAIN proj.samps["ais_samps"][i] :
                proj.samps["ais_samps"][i][j] =
                    proj.samps["eais_samps"][i][j] + proj.samps["wais_samps"][i][j]
    /\ pc = "done" =>
          \A s \in DOMAIN local.ais : \A y \in DOMAIN local.ais[s] :
             \A l \in DOMAIN local.ais[s][y] :
                local.ais[s][y][l] = Plus(local.eais[s][y][l], local.wais[s][y][l])

\* A temperature-driven run that mixed high and low rows and localized them
C1_Witness ==
    /\ pc = "done"
    /\ TemperatureDriven
    /\ MixedMask
    /\ NCols(proj.samps["ais_samps"]) > 0
    /\ proj.samps["ais_samps"][1][1] # 0

\* C2: temperature-driven mixing: output row i of EAIS, WAIS, GIS and AIS is
\* the high-ensemble row at the drawn index when mask[i] is True and the
\* low-ensemble row at the same drawn index when mask[i] is False.
C2_MixingByMask ==
    (TemperatureDriven /\ Projected) =>
        \A k \in SheetKeys :
           /\ Len(proj.samps[k]) = Len(useHigh)
           /\ \A i \in DOMAIN useHigh :
                 proj.samps[k][i] =
                    IF useHigh[i] THEN Row(pre.samps[k \o "H"], sample_inds[i])
                    ELSE Row(pre.samps[k \o "L"], sample_inds[i])

C2_Witness ==
    /\ pc = "projected"
    /\ TemperatureDriven
    /\ MixedMask
    /\ NCols(proj.samps["gis_samps"]) > 0

\* The value of a centered trajectory re-interpolated at the base year over
\* the raw years extended with the (2000, 0) anchor
Reinterpolated(core, sheet, m) ==
    Interp(args.baseyear, <<2000>> \o mat[core].years, <<0>> \o mat[core][sheet][m], 0)

BetweenAnchorAndFirstYear(core) ==
    2000 < args.baseyear /\ args.baseyear < mat[core].years[1]

\* C3 as stated: after ExtractSamples the centered trajectory of every
\* member re-interpolates to 0 at the base year, whatever the base year.
C3_AsStated ==
    pc = "preprocessed" =>
        \A core \in extracted : \A sheet \in {"eais", "wais", "gis"} :
           \A m \in DOMAIN mat[core][sheet] : Reinterpolated(core, sheet, m) = 0

\* C3 amended: the centered trajectory re-interpolates to 0 at the base year
\* when the base year is at or below 2000 or at or above the first raw year;
\* when it lies strictly between them the value is v * t * (1 - t), for v the
\* member's raw value at the first raw year and t the fraction of the way
\* from 2000 to the first raw year.
C3_ZeroOutsideAnchorGap ==
    pc = "preprocessed" =>
        \A core \in extracted : \A sheet \in {"eais", "wais", "gis"} :
           \A m \in DOMAIN mat[core][sheet] :
              IF BetweenAnchorAndFirstYear(core)
              THEN LET first_year == mat[core].years[1]
                       v == LoadMat(args.matId)[core][sheet][m][1]
                   IN  Reinterpolated(core, sheet, m) * (first_year - 2000) * (first_year - 2000)
                          = v * (args.baseyear - 2000) * (first_year - args.baseyear)
              ELSE Reinterpolated(core, sheet, m) = 0

\* An extraction whose base year lies strictly between two raw years
C3_Witness ==
    /\ pc = "preprocessed"
    /\ \E core \in extracted : \E j \in 1..(Len(mat[core].years) - 1) :
          /\ mat[core].years[j] < args.baseyear
          /\ args.baseyear < mat[core].years[j + 1]
          /\ LoadMat(args.matId)[core].eais # mat[core].eais

IsPermutation(inds, M) == Len(inds) = M /\ Range(inds) = 0..(M - 1)

Distinct(inds) == \A i, j \in DOMAIN inds : inds[i] = inds[j] => i = j

SourceRows == IF TemperatureDriven THEN NRows(pre.samps["ais_sampsL"])
              ELSE NRows(pre.samps["ais_samps"])

\* C5: without replacement the drawn indices never repeat, and when as many
\* are drawn as there are members they are a permutation of 0..M-1; with or
\* without replacement every index is a member index and, in
\* single-scenario mode, every output row is the input row at its index.
C5_Resampling ==
    Projected =>
        /\ \A i \in DOMAIN sample_inds : sample_inds[i] \in 0..(SourceRows - 1)
        /\ ~args.replace => Distinct(sample_inds)
        /\ (~args.replace /\ Len(sample_inds) = SourceRows) =>
              IsPermutation(sample_inds, SourceRows)
        /\ ~TemperatureDriven =>
              \A k \in SheetKeys :
                 /\ Len(proj.samps[k]) = args.nsamps
                 /\ \A i \in DOMAIN sample_inds :
                       proj.samps[k][i] = Row(pre.samps[k], sample_inds[i])

\* A single-scenario run that drew all members without replacement, not in
\* their original order
C5_Witness ==
    /\ Projected
    /\ ~TemperatureDriven
    /\ ~args.replace
    /\ args.nsamps = NRows(pre.samps["ais_samps"])
    /\ \E i \in DOMAIN sample_inds : sample_inds[i] # i - 1

\* Integrated forcings, in hundredths, on both sides of and on the two markers
SATGrid == {iSAT_marker[1] + 1250 * k : k \in (0 - 2)..10}

\* w1 <= w2 for two weights over the same denominator
WeightLeq(w1, w2) == w1.wden = w2.wden /\ w1.num <= w2.num

\* The weight w of the integrated forcing x / (100 * den) is what C6 says it
\* is: a fraction of 100 * 100 * den, the hundredths of x and of the markers
\* and the division by 100 taken together
WeightAsSpecified(x, den, w) ==
    /\ w.wden = 100 * 100 * den
    /\ 0 <= w.num /\ w.num <= w.wden
    /\ x <= iSAT_marker[1] * den => w.num = 0
    /\ x >= iSAT_marker[2] * den => w.num = w.wden
    /\ (iSAT_marker[1] * den < x /\ x < iSAT_marker[2] * den) =>
          w.num = x - iSAT_marker[1] * den

\* C6: the scenario weight is non-decreasing in the integrated forcing, lies
\* in [0, 1], is 0 at or below 142.5, 1 at or above 242.5 and
\* (iSAT - 142.5) / 100 in between.
C6_ScenarioWeight ==
    /\ \A m \in DOMAIN sel.weights :
          /\ WeightAsSpecified(sel.iSAT[m], sel.den, sel.weights[m])
          /\ \A n \in DOMAIN sel.weights :
                sel.iSAT[m] <= sel.iSAT[n] => WeightLeq(sel.weights[m], sel.weights[n])
    /\ sel # NoSel =>
          \A x \in SATGrid :
             /\ WeightAsSpecified(x, 1, ScenarioWeight(x, 1))
             /\ \A z \in SATGrid :
                   x <= z => WeightLeq(ScenarioWeight(x, 1), ScenarioWeight(z, 1))

\* A selection whose members have integrated forcings on a marker, strictly
\* between the markers and outside them
C6_Witness ==
    /\ pc = "projected"
    /\ \E m \in DOMAIN sel.weights : sel.iSAT[m] = iSAT_marker[1] * sel.den
    /\ \E m \in DOMAIN sel.weights : sel.iSAT[m] > iSAT_marker[2] * sel.den
    /\ \E m \in DOMAIN sel.weights :
          0 < sel.weights[m].num /\ sel.weights[m].num < sel.weights[m].wden

LocalSheets == {"eais", "wais", "gis"}

\* C7: for EAIS, WAIS and GIS the local cube is the outer product of the
\* global cube and the fingerprint, of shape samples x years x locations.
C7_OuterProduct ==
    pc = "done" =>
        \A sheet \in LocalSheets :
           LET glob == proj.samps[sheet \o "_samps"]
               fp == Fingerprints(args.fpdir)[sheet]
               loc == local[sheet]
           IN  /\ Len(loc) = NRows(glob)
               /\ \A s \in DOMAIN loc :
                     /\ Len(loc[s]) = Len(proj.years)
                     /\ \A y \in DOMAIN loc[s] :
                           /\ Len(loc[s][y]) = Len(fp)
                           /\ \A l \in DOMAIN fp : loc[s][y][l] = Times(glob[s][y], fp[l])

\* A localized run whose fingerprint has the values 1, 0 and 2 and whose
\* global cube is not zero
C7_Witness ==
    /\ pc = "done"
    /\ Range(Fingerprints(args.fpdir).gis) = {0, 1, 2}
    /\ \E s \in DOMAIN local.gis : \E y \in DOMAIN local.gis[s] :
          /\ proj.samps["gis_samps"][s][y] # 0
          /\ local.gis[s][y] = <<proj.samps["gis_samps"][s][y], 0,
                                 2 * proj.samps["gis_samps"][s][y]>>

\* The local cube computed over the whole location axis at once
Unchunked(samps, fp) == multiply_outer(samps, <<fp>>)

\* C8: whatever the chunk size over the location axis, the local cubes of
\* the four ice sheets equal the unchunked result.
C8_ChunkIndependent ==
    pc = "done" =>
        /\ \A sheet \in LocalSheets :
              local[sheet] = Unchunked(proj.samps[sheet \o "_samps"], Fingerprints(args.fpdir)[sheet])
        /\ local.ais = AddCubes(Unchunked(proj.samps["wais_samps"], Fingerprints(args.fpdir).wais),
                                Unchunked(proj.samps["eais_samps"], Fingerprints(args.fpdir).eais))

\* A localized run whose chunk size does not divide the number of locations
C8_Witness ==
    /\ pc = "done"
    /\ args.chunksize > 1
    /\ args.chunksize < Len(Fingerprints(args.fpdir).gis)
    /\ Len(Fingerprints(args.fpdir).gis) % args.chunksize # 0
    /\ NRows(local.ais) > 0

\* The target years requested of the run
RequestedYears == Arange(args.pyear_start, args.pyear_end + 1, args.pyear_step)

\* Some requested target year is not a raw year of the table that was read
TargetYearAbsent ==
    /\ args.matId \in MatIds
    /\ \E i \in DOMAIN RequestedYears : RequestedYears[i] \notin Range(RawYears(args.matId))

\* C9: ExtractSamples fails when a requested target year is absent from the
\* raw years, and what it returns has one column per requested target year.
C9_FailsOnAbsentYear ==
    pc = "preprocessed" =>
        /\ ~TargetYearAbsent
        /\ \A k \in DOMAIN pre.samps : NCols(pre.samps[k]) = Len(pre.years)

\* C10: a run that requests a target year absent from the raw years does
\* not complete and has written no global and no local file.
C10_NoOutputOnAbsentYear ==
    TargetYearAbsent => (pc # "done" /\ files = {})

\* A run with an absent target year and paths for all the global files,
\* ended by the error of the projection stage
C10_Witness ==
    /\ TargetYearAbsent
    /\ pc = "failed"
    /\ err = "ValueError"
    /\ args.gpaths = {"EAIS", "WAIS", "AIS", "GIS"}
    /\ Projected = FALSE
    /\ pre # NoDict

GlobalSheetsWritten == {f.sheet : f \in {g \in files : g.kind = "global"}}

LocalSheetsWritten == {f.sheet : f \in {g \in files : g.kind = "local"}}

\* C11: when a run ends, the files written are every requested global file
\* and every local file if it completed, and none if it failed.
C11_NoPartialOutput ==
    /\ pc = "failed" => files = {}
    /\ pc = "done" =>
          /\ GlobalSheetsWritten = args.gpaths
          /\ LocalSheetsWritten = Range(LocalOrder)

\* The projection stage of a temperature-driven run was entered with a
\* scenario that the forcing file does not hold
ScenarioNotInForcing ==
    /\ TemperatureDriven
    /\ pc \notin {"start", "preprocessed"}
    /\ ~(args.driver = "cli" /\ ~Binds(CliProjectTemperatureKwargs, ProjectTemperatureParams))
    /\ pre.scenario \notin ForcingKeys(args.climate_data_file)

\* C12: in temperature-driven mode a scenario that is not a key of the
\* forcing file ends the run with a ValueError naming the scenario, with no
\* value drawn from the generator, no index sampled, no mask and no file.
C12_UnknownForcingScenario ==
    ScenarioNotInForcing =>
        /\ pc = "failed"
        /\ err = "ValueError"
        /\ errmsg = args.scenario
        /\ rng = default_rng(args.rngseed)
        /\ draws = <<>>
        /\ useHigh = <<>>
        /\ sample_inds = <<>>
        /\ ~Projected
        /\ files = {}

\* A run failed on the scenario rcp26, absent from the forcing file, with
\* paths for the global files and a seed whose generator is not in state 0
C12_Witness ==
    /\ ScenarioNotInForcing
    /\ pc = "failed"
    /\ args.scenario = "rcp26"
    /\ errmsg = "rcp26"
    /\ args.gpaths # {}
    /\ args.rngseed > 0

\* The names the command line accepts for --scenario
CliScenarioChoices ==
    {"rcp26", "rcp45", "rcp85", "ssp119", "ssp126", "ssp245", "ssp370", "ssp585"}

\* A single-scenario run was started with a scenario that has no core table
ScenarioNotMapped ==
    /\ pc # "start"
    /\ ~TemperatureDriven
    /\ args.scenario \notin {"rcp85", "rcp26", "tlim2.0win0.25", "tlim5.0win0.25"}

\* C13: in single-scenario mode a scenario without a core table ends the
\* run in the preprocess stage with a KeyError naming the scenario: nothing
\* is extracted, drawn, sampled or written; six of the names the command
\* line accepts have no core table.
C13_UnmappedScenario ==
    /\ ScenarioNotMapped =>
          /\ pc = "failed"
          /\ err = "KeyError"
          /\ errmsg = args.scenario
          /\ extracted = {}
          /\ pre = NoDict
          /\ draws = <<>>
          /\ sample_inds = <<>>
          /\ ~Projected
          /\ files = {}
    /\ pc = "failed" /\ err = "KeyError" =>
          CliScenarioChoices \ DOMAIN scenario_map =
              {"rcp45", "ssp119", "ssp126", "ssp245", "ssp370", "ssp585"}

\* A command-line run failed on the scenario rcp45
C13_Witness ==
    /\ ScenarioNotMapped
    /\ pc = "failed"
    /\ args.driver = "cli"
    /\ args.scenario = "rcp45"
    /\ errmsg = "rcp45"

\* pickScenario returned a mask in this run
MaskPicked == TemperatureDriven /\ sel # NoSel

\* The members of the forcing ensemble of the run's scenario
ForcingMembers ==
    DOMAIN ForcingFolder(args.climate_data_file, args.scenario).surface_temperature[1]

\* The generator state after n values were drawn from state s
RECURSIVE Advance(_, _)
Advance(s, n) == IF n = 0 THEN s ELSE Advance((5 * s + 3) % RngMod, n - 1)

\* C14: the mask has one Boolean entry per member of the forcing ensemble,
\* one uniform value per member was drawn from the generator, and mask[m]
\* is True exactly when member m's value is strictly below its weight.
C14_MaskFromUniformDraws ==
    MaskPicked =>
        /\ DOMAIN useHigh = ForcingMembers
        /\ DOMAIN sel.selector = ForcingMembers
        /\ DOMAIN sel.weights = ForcingMembers
        /\ Len(draws) >= 1 /\ draws[1] = <<"random", Cardinality(ForcingMembers)>>
        /\ \A m \in ForcingMembers :
              /\ useHigh[m] \in BOOLEAN
              /\ sel.selector[m] = Advance(default_rng(args.rngseed), m)
              /\ useHigh[m] <=>
                    (sel.selector[m] * sel.weights[m].wden < sel.weights[m].num * RngMod)

\* A mask with a member whose drawn value equals its weight and is sent to
\* the low branch, and a member sent to the high branch
C14_Witness ==
    /\ MaskPicked
    /\ \E m \in DOMAIN useHigh :
          /\ sel.selector[m] * sel.weights[m].wden = sel.weights[m].num * RngMod
          /\ ~useHigh[m]
    /\ \E m \in DOMAIN useHigh : useHigh[m]

\* C15: each of the four arrays returned by the projection stage has as
\* many rows as the mask has entries in temperature-driven mode and nsamps
\* rows in single-scenario mode, and one column per target year.
C15_CubeShape ==
    Projected =>
        \A k \in SheetKeys :
           /\ NRows(proj.samps[k]) =
                 (IF TemperatureDriven THEN Cardinality(ForcingMembers) ELSE args.nsamps)
           /\ TemperatureDriven => NRows(proj.samps[k]) = Len(useHigh)
           /\ \A i \in DOMAIN proj.samps[k] :
                 Len(proj.samps[k][i]) = Len(RequestedYears)

\* The key of the preprocess output that holds the rows extracted for a
\* sheet from a core table
ExtractedKey(sheet, core) ==
    IF TemperatureDriven
    THEN sheet \o "_samps" \o (IF core = "corefileH" THEN "H" ELSE "L")
    ELSE sheet \o "_samps"

\* C16: after ExtractSamples returns, the loaded table holds the values it
\* held before the call, and extracting again from it with the same
\* arguments returns the same arrays.
C16_EnsembleReadOnly ==
    pc = "preprocessed" =>
        \A core \in extracted :
           /\ mat[core] = LoadMat(args.matId)[core]
           /\ \A sheet \in LocalSheets :
                 ExtractSamples(mat[core], RequestedYears, args.baseyear)[sheet] =
                    pre.samps[ExtractedKey(sheet, core)]

\* The state of the run's generator once the mask has been drawn
AfterMaskDraws == Advance(default_rng(args.rngseed), Cardinality(ForcingMembers))

\* The index draw was made in this temperature-driven run
IndicesDrawn == MaskPicked /\ Len(draws) = 2

\* C17: in temperature-driven mode the generator built from the seed gives
\* first the per-member uniform values of the mask, then the indices, and
\* nothing else: the indices are drawn from the state the mask draws left.
C17_DrawOrder ==
    TemperatureDriven =>
        IF draws = <<>>
        THEN sample_inds = <<>> /\ useHigh = <<>>
        ELSE /\ draws[1] = <<"random", Cardinality(ForcingMembers)>>
             /\ Len(draws) <= 2
             /\ Len(draws) = 2 => draws[2] = <<"choice", Cardinality(ForcingMembers)>>
             /\ \A m \in DOMAIN sel.selector :
                   sel.selector[m] = Advance(default_rng(args.rngseed), m)
             /\ IF IndicesDrawn
                THEN LET ch == RngChoice(AfterMaskDraws, NRows(pre.samps["ais_sampsL"]),
                                        Cardinality(ForcingMembers), args.replace)
                     IN  /\ sample_inds = ch.inds
                         /\ rng = Advance(AfterMaskDraws, Cardinality(ForcingMembers))
                ELSE sample_inds = <<>> /\ rng = AfterMaskDraws

\* A temperature-driven run that drew its indices with replacement after a
\* mixed mask
C17_Witness ==
    /\ IndicesDrawn
    /\ MixedMask
    /\ args.replace
    /\ pc = "done"

Branches == IF TemperatureDriven THEN {"H", "L"} ELSE {""}

\* The number of members of the ensemble the indices are drawn from
MembersDrawnFrom == NRows(pre.samps["eais_samps" \o (IF TemperatureDriven THEN "L" ELSE "")])

\* C18: every output position has one drawn index and one branch (the only
\* ensemble in single-scenario mode, high or low in temperature-driven
\* mode) from which the rows of EAIS, WAIS, GIS and AIS at that position
\* all come, and the index is the one drawn for that position.
C18_SharedProvenance ==
    Projected =>
        /\ \A k \in SheetKeys : DOMAIN proj.samps[k] = DOMAIN sample_inds
        /\ \A i \in DOMAIN sample_inds :
              /\ sample_inds[i] \in 0..(MembersDrawnFrom - 1)
              /\ \E b \in Branches :
                    \A k \in SheetKeys :
                       proj.samps[k][i] = pre.samps[k \o b][sample_inds[i] + 1]

\* A projection of at least two rows: temperature-driven with a mixed mask
\* and high and low rows that differ at every drawn index, or
\* single-scenario with an index drawn twice
C18_Witness ==
    /\ Projected
    /\ Len(sample_inds) >= 2
    /\ IF TemperatureDriven
       THEN /\ MixedMask
            /\ \A k \in SheetKeys : \A i \in DOMAIN sample_inds :
                  pre.samps[k \o "H"][sample_inds[i] + 1] # pre.samps[k \o "L"][sample_inds[i] + 1]
       ELSE \E i, j \in DOMAIN sample_inds : i # j /\ sample_inds[i] = sample_inds[j]

\* C19: the years, scenario label and baseyear returned by the projection
\* stage are the target years, the configured scenario and the baseyear of
\* the preprocess output, and the global and the local files of a run carry
\* one and the same scenario label.
C19_Metadata ==
    /\ Projected =>
          /\ proj.years = pre.years
          /\ proj.years = RequestedYears
          /\ proj.scenario = args.scenario
          /\ proj.baseyear = args.baseyear
    /\ \A f, g \in files : f.scenario = g.scenario

\* What the projection function of the run's mode returns when it is given
\* the paths gp, everything else as in the run
ProjectionWithPaths(gp) ==
    LET a == [args EXCEPT !.gpaths = gp]
    IN  IF TemperatureDriven
        THEN ProjectTemperatureResult(a, pre, {},
                 pickScenario(a.climate_data_file, pre.scenario, default_rng(a.rngseed)))
        ELSE ProjectSingleResult(a, pre, {})

\* C20: a projection function that returns has written the global file of
\* exactly the ice sheets it was given a path for, each carrying its own
\* ice sheet, and returns the same cube whichever paths it is given.
C20_GlobalFileIffPath ==
    Projected =>
        /\ \A sheet \in Range(GlobalOrder) :
              (\E f \in files : f.kind = "global" /\ f.sheet = sheet) <=> sheet \in args.gpaths
        /\ \A gp \in GPathSets :
              LET r == ProjectionWithPaths(gp)
              IN  /\ r.err = ""
                  /\ r.out = proj
                  /\ r.inds = sample_inds
                  /\ {f.sheet : f \in r.files} = gp

\* The command line called the postprocess stage in this run
CliPostprocessCalled ==
    /\ args.driver = "cli"
    /\ Projected
    /\ pc \in {"done", "failed"}

\* C21: a run started from the command line has written, when it ends, the
\* local file of exactly the ice sheets whose --output-<SHEET>-lslr-file
\* option was given.
C21_LocalFileIffOption ==
    CliPostprocessCalled => LocalSheetsWritten = args.lpaths

\* The value the forcing file of the run holds for member m in year y
ForcingOf(m, y) ==
    ForcingValue(ForcingProfiles(args.climate_data_file)[args.scenario][m], y)

\* The sum of member m's forcing values over the years from..to, both included
RECURSIVE SumYears(_, _, _)
SumYears(m, from, to) ==
    IF from > to THEN 0 ELSE ForcingOf(m, from) + SumYears(m, from + 1, to)

\* C22: every member is normalized by the mean of its own 51 values of the
\* years 1850 to 1900, both included: the integrated forcing the Selector
\* works with is the sum over 2000..2099 of value - mean(1850..1900).
C22_ReferenceWindowInclusive ==
    MaskPicked =>
        \A m \in ForcingMembers :
           51 * sel.iSAT[m] =
              sel.den * (51 * SumYears(m, 2000, 2099) - 100 * SumYears(m, 1850, 1900))

RefVal(core, sheet, m) ==
    LoadMat(args.matId)[core][sheet][m][1] - mat[core][sheet][m][1]

\* C24: with a base year at or before 2000 every reference value is 0 and
\* the centered table is the raw one, also when the raw years contain 2000.
C24_AnchorReference ==
    (pc = "preprocessed" /\ args.baseyear <= AnchorYear) =>
        \A core \in extracted :
           /\ \A sheet \in {"eais", "wais", "gis"} :
                 \A m \in DOMAIN mat[core][sheet] : RefVal(core, sheet, m) = 0
           /\ mat[core] = LoadMat(args.matId)[core]


\* C25: a local cube is missing exactly at the locations where its
\* fingerprint is missing, for every sample and year, and holds the product
\* everywhere else; the AIS cube is missing exactly where the EAIS or the
\* WAIS fingerprint is missing; every local file carries the units "mm".
C25_MissingFingerprint ==
    pc = "done" =>
        LET fp == Fingerprints(args.fpdir) IN
        /\ \A sheet \in LocalSheets :
              \A s \in DOMAIN local[sheet] : \A y \in DOMAIN local[sheet][s] :
                 \A l \in DOMAIN fp[sheet] :
                    IF fp[sheet][l] = NaN
                    THEN local[sheet][s][y][l] = NaN
                    ELSE local[sheet][s][y][l]
                            = proj.samps[sheet \o "_samps"][s][y] * fp[sheet][l]
        /\ \A s \in DOMAIN local.ais : \A y \in DOMAIN local.ais[s] :
              \A l \in DOMAIN fp.eais :
                 (local.ais[s][y][l] = NaN) <=> (fp.eais[l] = NaN \/ fp.wais[l] = NaN)
        /\ \A f \in files : f.kind = "local" => f.units = "mm"

\* A localized run whose EAIS fingerprint is missing at one site, whose WAIS
\* fingerprint is missing at another, with a site where both have a value
C25_Witness ==
    /\ pc = "done"
    /\ NRows(local.ais) > 0
    /\ LET fp == Fingerprints(args.fpdir) IN
       \E l1, l2, l3 \in DOMAIN fp.eais :
          /\ fp.eais[l1] = NaN /\ fp.wais[l1] # NaN
          /\ fp.wais[l2] = NaN /\ fp.eais[l2] # NaN
          /\ fp.eais[l3] # NaN /\ fp.wais[l3] # NaN
          /\ local.ais[1][1][l3] # 0
    /\ \E f \in files : f.kind = "local"


\* The keys of the preprocess output that the projection function of the
\* run's mode reads
KeysRead ==
    IF TemperatureDriven
    THEN {k \o v : k \in {"eais_samps", "wais_samps", "ais_samps", "gis_samps"},
                   v \in {"H", "L"}}
    ELSE {"eais_samps", "wais_samps", "ais_samps", "gis_samps"}

\* C26: the preprocess output of a run holds the keys that the projection
\* function of the run's mode reads, and no call of a stage fails to bind
\* its arguments.
C26_ModeConsistency ==
    /\ pre # NoDict => KeysRead \subseteq DOMAIN pre.samps
    /\ err # "TypeError"


ProjectionReturns == pc = "preprocessed" /\ pc' # "preprocessed"

AllAtOrBelowLowAnchor ==
    \A m \in ForcingMembers : sel.iSAT[m] <= 14250 * sel.den

AllAtOrAboveHighAnchor ==
    \A m \in ForcingMembers : sel.iSAT[m] >= 24250 * sel.den

\* C28: whatever the seed, a member whose integrated forcing is at or below
\* 142.5 is not in the high branch and one at or above 242.5 is; the output
\* of an ensemble entirely at or below 142.5 is the low rows at the drawn
\* indices, that of one entirely at or above 242.5 the high rows.
C28_DefiniteBranches ==
    MaskPicked =>
        /\ \A m \in ForcingMembers :
              /\ sel.iSAT[m] <= 14250 * sel.den => ~useHigh[m]
              /\ sel.iSAT[m] >= 24250 * sel.den => useHigh[m]
        /\ (Projected /\ AllAtOrBelowLowAnchor) =>
              \A key \in SheetKeys :
                 proj.samps[key] = GatherRows(pre.samps[key \o "L"], sample_inds)
        /\ (Projected /\ AllAtOrAboveHighAnchor) =>
              \A key \in SheetKeys :
                 proj.samps[key] = GatherRows(pre.samps[key \o "H"], sample_inds)

\* A projection from an ensemble with a member exactly at 242.5 and every
\* other member above it, one of them with the draw 7/8
C28_Witness ==
    /\ MaskPicked
    /\ Projected
    /\ AllAtOrAboveHighAnchor
    /\ \E m \in ForcingMembers : sel.iSAT[m] = 24250 * sel.den
    /\ \E m \in ForcingMembers : sel.selector[m] = RngMod - 1
    /\ proj.samps["ais_samps"] # GatherRows(pre.samps["ais_sampsL"], sample_inds)


\* The projection function has reached its index draw
DrawAttempted ==
    /\ err # "TypeError"
    /\ IF TemperatureDriven THEN MaskPicked ELSE args.nsamps # 0

RequestedCount == IF TemperatureDriven THEN Len(useHigh) ELSE args.nsamps

Population ==
    IF TemperatureDriven THEN NRows(pre.samps["ais_sampsL"])
    ELSE NRows(pre.samps["ais_samps"])

\* C29: without replacement a sample count above the number of members of
\* the ensemble drawn from makes the projection fail with no indices, no
\* output cube and no global file; with replacement the draw gives as many
\* indices as asked for, and the projection returns its cube whenever every
\* target year is a raw year.
C29_SampleCount ==
    DrawAttempted =>
        /\ (~args.replace /\ RequestedCount > Population) =>
              /\ pc = "failed"
              /\ err = "ValueError"
              /\ sample_inds = <<>>
              /\ ~Projected
              /\ files = {}
        /\ args.replace =>
              /\ Len(sample_inds) = RequestedCount
              /\ ~TargetYearAbsent => Projected

\* A draw with replacement of more indices than the ensemble has members
C29_Witness ==
    /\ DrawAttempted
    /\ args.replace
    /\ RequestedCount > Population
    /\ Projected
    /\ Len(sample_inds) = RequestedCount

\* A draw without replacement of more indices than the ensemble has members
C29_Refused ==
    /\ DrawAttempted
    /\ ~args.replace
    /\ RequestedCount > Population


\* The years axis of the forcing file lacks one of the years GetSATData
\* looks up
AxisLacksYear ==
    \E y \in {1850, 1900, 2300} : y \notin Range(ForcingYears(args.climate_data_file))

SelectorCalled ==
    /\ TemperatureDriven
    /\ pc \notin {"start", "preprocessed"}
    /\ args.scenario \in ForcingKeys(args.climate_data_file)

\* C30: when the years axis of the scenario lacks 1850, 1900 or 2300 the
\* projection fails with no mask, no uniform value drawn and the generator
\* where its seed put it.
C30_AxisLacksLookupYear ==
    (SelectorCalled /\ AxisLacksYear) =>
        /\ pc = "failed"
        /\ err = "IndexError"
        /\ draws = <<>>
        /\ rng = default_rng(args.rngseed)
        /\ ~MaskPicked
        /\ useHigh = <<>>
        /\ ~Projected

\* A failed selection on an axis that holds every year from 1850 to 2299,
\* all the years that enter the weights, but not 2300
C30_Witness ==
    /\ SelectorCalled
    /\ pc = "failed"
    /\ 2300 \notin Range(ForcingYears(args.climate_data_file))
    /\ \A y \in 1850..2299 : y \in Range(ForcingYears(args.climate_data_file))

====
